---- MODULE Spec2Model ----
(***************************************************************************)
(* Model of starfish/pipeline/registration/__init__.py: the Registration   *)
(* pipeline component.  It covers the registry of registration algorithms  *)
(* (populated by line 48 when the module is imported), the construction of *)
(* the `register` command group (add_to_parser) and the dispatcher (_cli). *)
(*                                                                         *)
(* PipelineComponent (algorithm_to_class_map, _ensure_algorithms_setup),   *)
(* RegistrationAlgorithmBase and starfish.io.Stack are not part of the     *)
(* source at hand; they are modelled from the contracts the specification  *)
(* gives for them.                                                         *)
(***************************************************************************)
EXTENDS Integers, Sequences, FiniteSets, TLC

\* ------------------------------------------------------------------ bounds
\* number of algorithm classes that can ever be defined in the process
MaxClasses == 3
\* number of calls of _ensure_algorithms_setup that are followed
MaxSetupCalls == 3

\* ------------------------------------------------------- algorithm classes
Classes == 1 .. MaxClasses

\* names the classes report; class k+2 reports the name of class k, so that
\* two distinct classes with one name exist in the universe
AlgorithmNames == <<"fourier_shift", "translation">>

\* algorithm_cls.get_algorithm_name()
get_algorithm_name(algorithm_cls) ==
    AlgorithmNames[((algorithm_cls - 1) % Len(AlgorithmNames)) + 1]

\* filesystem locations accepted by FsExistsType
Paths == {"/tmp/in", "/tmp/out"}

VARIABLES
    subclasses,          \* RegistrationAlgorithmBase.__subclasses__(), in definition order
    module_loaded,       \* the import of the module (through line 48) has succeeded
    config_error,        \* the last registry construction raised a configuration error
    registry,            \* PipelineComponent's cached name -> class mapping
    populations,         \* how many times the mapping has been assigned
    setup_results,       \* per call of _ensure_algorithms_setup: the subclasses that
                         \* existed, whether it succeeded, the mapping it left
    register_group,      \* cls.register_group, the parser of the `register` command
    subclasses_at_build, \* how many subclasses existed when add_to_parser last ran
    invocation           \* the last run of the `register` command

vars == <<subclasses, module_loaded, config_error, registry, populations,
          setup_results, register_group, subclasses_at_build, invocation>>

\* ----------------------------------------------------------------- helpers
\* the values of the discriminator field registration_algorithm_class
None == [kind |-> "None", name |-> "", cls |-> 0]
StrValue(n) == [kind |-> "str", name |-> n, cls |-> 0]
ClassValue(c) == [kind |-> "cls", name |-> "", cls |-> c]

SeqRange(s) == {s[i] : i \in 1 .. Len(s)}

\* an insertion-ordered dict is a sequence of <<key, value>> entries
Keys(entries) == {entries[i][1] : i \in 1 .. Len(entries)}
Values(entries) == [i \in 1 .. Len(entries) |-> entries[i][2]]
Lookup(entries, key) ==
    LET i == CHOOSE j \in 1 .. Len(entries) : entries[j][1] = key
    IN entries[i][2]

\* ---------------------------------------------------------------- registry
\* Registration.implementing_algorithms
implementing_algorithms == subclasses

\* one more (name, subtype) pair goes into the mapping under construction;
\* a name that is already taken is a configuration error
RegisterSilently(acc, algorithm_cls) ==
    LET name == get_algorithm_name(algorithm_cls)
    IN IF ~acc.ok THEN acc
       ELSE IF name \in Keys(acc.entries)
       THEN [acc EXCEPT !.entries =
                [i \in 1 .. Len(acc.entries) |->
                    IF acc.entries[i][1] = name
                    THEN <<name, algorithm_cls>> ELSE acc.entries[i]]]
       ELSE [acc EXCEPT !.entries = Append(@, <<name, algorithm_cls>>)]

Register(acc, algorithm_cls) ==
    LET name == get_algorithm_name(algorithm_cls)
    IN IF ~acc.ok THEN acc
       ELSE IF name \in Keys(acc.entries)
       THEN [acc EXCEPT !.ok = FALSE]
       ELSE [acc EXCEPT !.entries = Append(@, <<name, algorithm_cls>>)]

RECURSIVE name_to_subtype_map(_, _)
name_to_subtype_map(acc, discovered) ==
    IF discovered = <<>> THEN acc
    ELSE name_to_subtype_map(Register(acc, Head(discovered)), Tail(discovered))

\* PipelineComponent._ensure_algorithms_setup: populate the mapping unless it
\* is populated already
ensure_algorithms_setup_unguarded(reg, discovered) ==
    LET built == name_to_subtype_map([ok |-> TRUE, entries |-> <<>>], discovered)
    IN IF built.ok
       THEN [ok |-> TRUE, assigned |-> TRUE,
             registry |-> [populated |-> TRUE, entries |-> built.entries]]
       ELSE [ok |-> FALSE, assigned |-> FALSE, registry |-> reg]

ensure_algorithms_setup(reg, discovered) ==
    IF reg.populated
    THEN [ok |-> TRUE, assigned |-> FALSE, registry |-> reg]
    ELSE LET built == name_to_subtype_map([ok |-> TRUE, entries |-> <<>>], discovered)
         IN IF built.ok
            THEN [ok |-> TRUE, assigned |-> TRUE,
                  registry |-> [populated |-> TRUE, entries |-> built.entries]]
            ELSE [ok |-> FALSE, assigned |-> FALSE, registry |-> reg]

\* PipelineComponent.algorithm_to_class_map: empty before population
algorithm_to_class_map ==
    IF registry.populated THEN registry.entries ELSE <<>>

\* the effect of one call of _ensure_algorithms_setup on the state
SetupCall ==
    LET r == ensure_algorithms_setup(registry, implementing_algorithms)
    IN /\ Len(setup_results) < MaxSetupCalls
       /\ registry' = r.registry
       /\ config_error' = ~r.ok
       /\ populations' = populations + (IF r.assigned THEN 1 ELSE 0)
       /\ setup_results' = Append(setup_results,
                                  [ok |-> r.ok, map |-> r.registry.entries,
                                   discovered |-> implementing_algorithms])
       /\ module_loaded' = (module_loaded \/ r.ok)

\* line 48, run when the module is imported
module_import ==
    /\ ~module_loaded
    /\ SetupCall
    /\ UNCHANGED <<subclasses, register_group, subclasses_at_build, invocation>>

\* a later call of Registration._ensure_algorithms_setup()
ensure_again ==
    /\ module_loaded
    /\ SetupCall
    /\ UNCHANGED <<subclasses, register_group, subclasses_at_build, invocation>>

\* a class statement deriving from RegistrationAlgorithmBase is executed
define_subclass(algorithm_cls) ==
    /\ algorithm_cls \notin SeqRange(subclasses)
    /\ subclasses' = Append(subclasses, algorithm_cls)
    /\ UNCHANGED <<module_loaded, config_error, registry, populations,
                   setup_results, register_group, subclasses_at_build, invocation>>

\* ----------------------------------------------------------- add_to_parser
\* subparsers.add_parser("register") with the -i/--input and -o/--output
\* options, the entry point and the (still empty) group of subcommands
new_register_group ==
    [built |-> TRUE,
     options |-> {"--input", "--output"},
     starfish_command |-> "Registration._cli",
     dest |-> "registration_algorithm_class",
     subcommands |-> <<>>,
     group_arguments |-> <<>>]

\* the body of the loop: one subcommand per algorithm class, carrying the
\* class as the default of the discriminator and the class's own arguments
add_algorithm_parser_without_defaults(group, algorithm_cls) ==
    [group EXCEPT !.subcommands = Append(@,
        [name |-> get_algorithm_name(algorithm_cls),
         defaults |-> None,
         arguments |-> <<algorithm_cls>>])]

add_algorithm_parser_on_group(group, algorithm_cls) ==
    [group EXCEPT !.subcommands = Append(@,
        [name |-> get_algorithm_name(algorithm_cls),
         defaults |-> ClassValue(algorithm_cls),
         arguments |-> <<>>]),
                  !.group_arguments = Append(@, algorithm_cls)]

add_algorithm_parser(group, algorithm_cls) ==
    [group EXCEPT !.subcommands = Append(@,
        [name |-> get_algorithm_name(algorithm_cls),
         defaults |-> ClassValue(algorithm_cls),
         arguments |-> <<algorithm_cls>>])]

RECURSIVE add_algorithm_parsers(_, _)
add_algorithm_parsers(group, classes) ==
    IF classes = <<>> THEN group
    ELSE add_algorithm_parsers(add_algorithm_parser(group, Head(classes)),
                               Tail(classes))

\* Registration.add_to_parser
add_to_parser_from_subclasses ==
    /\ module_loaded
    /\ register_group' = add_algorithm_parsers(new_register_group,
                                               implementing_algorithms)
    /\ subclasses_at_build' = Len(subclasses)
    /\ UNCHANGED <<subclasses, module_loaded, config_error, registry,
                   populations, setup_results, invocation>>

add_to_parser ==
    /\ module_loaded
    /\ register_group' = add_algorithm_parsers(new_register_group,
                                               Values(algorithm_to_class_map))
    /\ subclasses_at_build' = Len(subclasses)
    /\ UNCHANGED <<subclasses, module_loaded, config_error, registry,
                   populations, setup_results, invocation>>

\* ------------------------------------------------------------------ parsing
\* the parser a subcommand token selects: the one added last under that name
SubcommandNames(group) ==
    {group.subcommands[i].name : i \in 1 .. Len(group.subcommands)}

SelectedParser(group, token) ==
    LET is == {i \in 1 .. Len(group.subcommands) : group.subcommands[i].name = token}
        last == CHOOSE i \in is : \A j \in is : j <= i
    IN group.subcommands[last]

\* the namespace argparse hands to the entry point: the discriminator is None
\* without a subcommand; with one it is first the subcommand's name and is then
\* overwritten by the default the subcommand's parser carries, if any
parse_args(group, input, output, token) ==
    LET top == [input |-> input, output |-> output,
                registration_algorithm_class |-> None]
    IN IF token = "" THEN top
       ELSE LET named == [top EXCEPT !.registration_algorithm_class = StrValue(token)]
                sub == SelectedParser(group, token)
            IN IF sub.defaults.kind = "None" THEN named
               ELSE [named EXCEPT !.registration_algorithm_class = sub.defaults]

\* --------------------------------------------------------------- containers
\* what a Stack holds: where it was read from and the algorithms whose effect
\* it carries
NoContainer == [origin |-> "", applied |-> <<>>]
FileAt(path) == [origin |-> path, applied |-> <<>>]
Effect(algorithm_cls, container) ==
    [container EXCEPT !.applied = Append(@, algorithm_cls)]

\* the steps of one invocation that can be made to fail, and how the
\* algorithm's register delivers its effect
Steps == {"from_cli_args", "read", "register", "write"}
Modes == {"in_place", "returns"}

Call(op, algorithm_cls, path) == [op |-> op, cls |-> algorithm_cls, path |-> path]

\* the frame of _cli before its first statement
Start ==
    [calls |-> <<>>, done |-> FALSE, exit_status |-> -1,
     raised |-> <<>>, propagated |-> "",
     instance |-> 0, s |-> NoContainer, result |-> NoContainer,
     artifact |-> NoContainer]

\* an exception leaves the frame: nothing in _cli catches it
Raise(ctx, error) ==
    [ctx EXCEPT !.done = TRUE, !.exit_status = 1,
                !.raised = Append(@, error), !.propagated = error]

\* cls.register_group.print_help()
print_help_text(ctx) ==
    IF ctx.done THEN ctx
    ELSE [ctx EXCEPT !.calls = Append(@, Call("print_help", 0, ""))]

\* cls.register_group.exit(status=...)
exit(ctx, status) ==
    IF ctx.done THEN ctx
    ELSE [ctx EXCEPT !.calls = Append(@, Call("exit", 0, "")),
                     !.done = TRUE, !.exit_status = status]

\* args.registration_algorithm_class.from_cli_args(args)
from_cli_args(ctx, args, fail) ==
    IF ctx.done THEN ctx
    ELSE IF args.registration_algorithm_class.kind # "cls"
    THEN Raise(ctx, "AttributeError")
    ELSE LET algorithm_cls == args.registration_algorithm_class.cls
             called == [ctx EXCEPT !.calls =
                            Append(@, Call("from_cli_args", algorithm_cls, ""))]
         IN IF fail = "from_cli_args" THEN Raise(called, "from_cli_args")
            ELSE [called EXCEPT !.instance = algorithm_cls]

\* s = Stack(); s.read(path)
read(ctx, path, fail) ==
    IF ctx.done THEN ctx
    ELSE LET called == [ctx EXCEPT !.calls = Append(@, Call("read", 0, path))]
         IN IF fail = "read" THEN Raise(called, "read")
            ELSE [called EXCEPT !.s = FileAt(path)]

\* instance.register(s): the effect is applied to s itself, or to a
\* container that register returns
register(ctx, mode, fail) ==
    IF ctx.done THEN ctx
    ELSE LET called == [ctx EXCEPT !.calls =
                            Append(@, Call("register", ctx.instance, ctx.s.origin))]
         IN IF fail = "register" THEN Raise(called, "register")
            ELSE IF mode = "in_place"
            THEN [called EXCEPT !.s = Effect(ctx.instance, ctx.s),
                                !.result = Effect(ctx.instance, ctx.s)]
            ELSE [called EXCEPT !.result = Effect(ctx.instance, ctx.s)]

\* s.write(path)
write(ctx, path, fail) ==
    IF ctx.done THEN ctx
    ELSE LET called == [ctx EXCEPT !.calls = Append(@, Call("write", 0, path))]
         IN IF fail = "write" THEN Raise(called, "write")
            ELSE [called EXCEPT !.artifact = ctx.s]

\* _cli returns and the process ends normally
return(ctx) ==
    IF ctx.done THEN ctx
    ELSE [ctx EXCEPT !.done = TRUE, !.exit_status = 0]

\* -------------------------------------------------------------------- _cli
\* Registration._cli(args, print_help), with the step that is to fail and the
\* way the algorithm delivers its effect as the collaborators' choices
cli_ignoring_print_help(args, print_help, fail, mode) ==
    LET c1 == IF args.registration_algorithm_class.kind = "None"
              THEN exit(print_help_text(Start), 2)
              ELSE Start
        c2 == from_cli_args(c1, args, fail)
        c3 == read(c2, args.input, fail)
        c4 == register(c3, mode, fail)
        c5 == write(c4, args.output, fail)
    IN return(c5)

cli_without_none_check(args, print_help, fail, mode) ==
    LET c1 == IF print_help
              THEN exit(print_help_text(Start), 2)
              ELSE Start
        c2 == from_cli_args(c1, args, fail)
        c3 == read(c2, args.input, fail)
        c4 == register(c3, mode, fail)
        c5 == write(c4, args.output, fail)
    IN return(c5)

cli_write_before_register(args, print_help, fail, mode) ==
    LET c1 == IF args.registration_algorithm_class.kind = "None" \/ print_help
              THEN exit(print_help_text(Start), 2)
              ELSE Start
        c2 == from_cli_args(c1, args, fail)
        c3 == read(c2, args.input, fail)
        c4 == write(c3, args.output, fail)
        c5 == register(c4, mode, fail)
    IN return(c5)

cli_continuing_after_load_error(args, print_help, fail, mode) ==
    LET c1 == IF args.registration_algorithm_class.kind = "None" \/ print_help
              THEN exit(print_help_text(Start), 2)
              ELSE Start
        c2 == from_cli_args(c1, args, fail)
        r3 == read(c2, args.input, fail)
        c3 == IF c2.done THEN r3
              ELSE [r3 EXCEPT !.done = FALSE, !.exit_status = -1, !.propagated = ""]
        c4 == register(c3, mode, fail)
        c5 == write(c4, args.output, fail)
    IN return(c5)

cli(args, print_help, fail, mode) ==
    LET c1 == IF args.registration_algorithm_class.kind = "None" \/ print_help
              THEN exit(print_help_text(Start), 2)
              ELSE Start
        c2 == from_cli_args(c1, args, fail)
        c3 == read(c2, args.input, fail)
        c4 == register(c3, mode, fail)
        c5 == write(c4, args.output, fail)
    IN return(c5)

\* no run of the command has happened yet
NotInvoked ==
    [ran |-> FALSE, token |-> "", print_help |-> FALSE, fail |-> "none",
     mode |-> "in_place", args |-> parse_args(new_register_group, "", "", ""),
     outcome |-> Start]

\* the `register` command is run, once per process: the command line is parsed
\* by the parser add_to_parser built and the namespace is handed to _cli
run_register(input, output, token, print_help, fail, mode) ==
    /\ register_group.built
    /\ ~invocation.ran
    /\ token = "" \/ token \in SubcommandNames(register_group)
    /\ LET args == parse_args(register_group, input, output, token)
       IN invocation' = [ran |-> TRUE, token |-> token, print_help |-> print_help,
                         fail |-> fail, mode |-> mode, args |-> args,
                         outcome |-> cli(args, print_help, fail, mode)]
    /\ UNCHANGED <<subclasses, module_loaded, config_error, registry,
                   populations, setup_results, register_group,
                   subclasses_at_build>>

\* ------------------------------------------------------------ specification
Init ==
    /\ subclasses = <<>>
    /\ module_loaded = FALSE
    /\ config_error = FALSE
    /\ registry = [populated |-> FALSE, entries |-> <<>>]
    /\ populations = 0
    /\ setup_results = <<>>
    /\ register_group = [new_register_group EXCEPT !.built = FALSE,
                                                   !.options = {},
                                                   !.starfish_command = "",
                                                   !.dest = ""]
    /\ subclasses_at_build = 0
    /\ invocation = NotInvoked

Next ==
    \/ \E algorithm_cls \in Classes : define_subclass(algorithm_cls)
    \/ module_import
    \/ ensure_again
    \/ add_to_parser
    \/ \E input \in Paths, output \in Paths,
          token \in SeqRange(AlgorithmNames) \cup {""},
          print_help \in BOOLEAN, fail \in Steps \cup {"none"}, mode \in Modes :
            run_register(input, output, token, print_help, fail, mode)

Spec == Init /\ [][Next]_vars

\* ================================================================== claims
Outcome == invocation.outcome
Selected == invocation.args.registration_algorithm_class

HelpAndExit == <<Call("print_help", 0, ""), Call("exit", 0, "")>>

\* the calls of a run in which nothing fails
FullSequence(args) ==
    LET algorithm_cls == args.registration_algorithm_class.cls
    IN <<Call("from_cli_args", algorithm_cls, ""),
         Call("read", 0, args.input),
         Call("register", algorithm_cls, args.input),
         Call("write", 0, args.output)>>

StepIndex(step) ==
    CASE step = "from_cli_args" -> 1
      [] step = "read" -> 2
      [] step = "register" -> 3
      [] step = "write" -> 4

HasDuplicateNames(classes) ==
    \E i, j \in 1 .. Len(classes) :
        i # j /\ get_algorithm_name(classes[i]) = get_algorithm_name(classes[j])

DistinctNames(entries) ==
    \A i, j \in 1 .. Len(entries) :
        i # j => entries[i][1] # entries[j][1] /\ entries[i][2] # entries[j][2]

\* C1: a run whose discriminator is None, or whose print_help is true even
\* with an algorithm selected, prints the group's help, exits with status 2
\* and performs none of from_cli_args, read, register, write.
C1_UsageErrorPath ==
    (invocation.ran /\ (Selected.kind = "None" \/ invocation.print_help)) =>
        /\ Outcome.calls = HelpAndExit
        /\ Outcome.exit_status = 2
        /\ \A i \in 1 .. Len(Outcome.calls) : Outcome.calls[i].op \notin Steps
        /\ Outcome.artifact = NoContainer

C1_Witness ==
    /\ invocation.ran
    /\ invocation.print_help
    /\ Selected.kind = "cls"
    /\ Outcome.exit_status = 2

\* C2: with an algorithm selected and no failing step, the run performs
\* from_cli_args, read(input), register on the loaded container and
\* write(output), each once and in that order, and ends with status 0.
C2_DispatchOrder ==
    (/\ invocation.ran
     /\ Selected.kind = "cls"
     /\ ~invocation.print_help
     /\ invocation.fail = "none") =>
        /\ Outcome.calls = FullSequence(invocation.args)
        /\ Outcome.exit_status = 0
        /\ Outcome.raised = <<>>

C2_Witness ==
    /\ invocation.ran
    /\ invocation.fail = "none"
    /\ Outcome.exit_status = 0
    /\ Len(Outcome.calls) = 4
    /\ invocation.args.input # invocation.args.output

\* C3: when one of from_cli_args, read, register, write fails, the run ends
\* with a non-zero status carrying exactly that failure, the calls made are the
\* sequence up to and including the failing step, and nothing after it runs.
C3_FailStop ==
    (/\ invocation.ran
     /\ Selected.kind = "cls"
     /\ ~invocation.print_help
     /\ invocation.fail \in Steps) =>
        /\ Outcome.exit_status = 1
        /\ Outcome.propagated = invocation.fail
        /\ Outcome.raised = <<invocation.fail>>
        /\ Outcome.calls = SubSeq(FullSequence(invocation.args), 1,
                                  StepIndex(invocation.fail))
        /\ Outcome.artifact = NoContainer

C3_Witness ==
    /\ invocation.ran
    /\ invocation.fail = "read"
    /\ Outcome.exit_status = 1
    /\ Len(Outcome.calls) = 2

\* C4: a construction of the mapping from subclasses of which two report the
\* same name fails with a configuration error and keeps none of them; every
\* populated mapping and every built command group has distinct names for
\* distinct classes, and holds every class that was discovered.
C4_NameUniqueness ==
    /\ \A i \in 1 .. Len(setup_results) :
        (i = 1 \/ ~setup_results[i - 1].ok) =>
            /\ setup_results[i].ok = ~HasDuplicateNames(setup_results[i].discovered)
            /\ setup_results[i].ok =>
                   Values(setup_results[i].map) = setup_results[i].discovered
            /\ ~setup_results[i].ok => setup_results[i].map = <<>>
    /\ config_error => ~registry.populated /\ ~module_loaded
    /\ registry.populated => DistinctNames(registry.entries)
    /\ register_group.built =>
        \A i, j \in 1 .. Len(register_group.subcommands) :
            i # j => register_group.subcommands[i].name
                        # register_group.subcommands[j].name

C4_Witness ==
    /\ config_error
    /\ setup_results # <<>>
    /\ HasDuplicateNames(setup_results[1].discovered)
    /\ ~registry.populated

\* C5: when the subcommand `name` is selected, the discriminator handed to
\* _cli is the class registered under that name, and from_cli_args and
\* register are called for that class and for no other.
C5_Routing ==
    (invocation.ran /\ invocation.token # "") =>
        /\ invocation.token \in Keys(registry.entries)
        /\ Selected = ClassValue(Lookup(registry.entries, invocation.token))
        /\ \A i \in 1 .. Len(Outcome.calls) :
            Outcome.calls[i].op \in {"from_cli_args", "register"} =>
                Outcome.calls[i].cls = Lookup(registry.entries, invocation.token)
        /\ ~invocation.print_help =>
            /\ Outcome.calls[1].op = "from_cli_args"
            /\ Outcome.raised # <<"AttributeError">>
        /\ (~invocation.print_help /\ invocation.fail = "none") =>
            Outcome.calls[3] = Call("register",
                                    Lookup(registry.entries, invocation.token),
                                    invocation.args.input)

C5_Witness ==
    /\ invocation.ran
    /\ invocation.token = AlgorithmNames[2]
    /\ Len(registry.entries) >= 2
    /\ Outcome.exit_status = 0

\* C6: the built group has exactly one subcommand per registered name and no
\* other subcommand, and each class's add_arguments was invoked exactly once,
\* on its own subcommand's parser, never on the group or on a sibling.
C6_CliSurfaceComplete ==
    register_group.built =>
        /\ \A name \in Keys(registry.entries) :
            Cardinality({i \in 1 .. Len(register_group.subcommands) :
                            register_group.subcommands[i].name = name}) = 1
        /\ \A i \in 1 .. Len(register_group.subcommands) :
            /\ register_group.subcommands[i].name \in Keys(registry.entries)
            /\ register_group.subcommands[i].arguments =
                   <<Lookup(registry.entries, register_group.subcommands[i].name)>>
        /\ register_group.group_arguments = <<>>

C6_Witness ==
    /\ register_group.built
    /\ Len(register_group.subcommands) >= 2

\* C7: every successful call of the registry setup leaves the same mapping
\* as the first one, with no entry duplicated.
C7_IdempotentDiscovery ==
    \A i, j \in 1 .. Len(setup_results) :
        (setup_results[i].ok /\ setup_results[j].ok) =>
            /\ setup_results[i].map = setup_results[j].map
            /\ Cardinality(Keys(setup_results[i].map)) = Len(setup_results[i].map)

C7_Witness ==
    /\ Len(setup_results) >= 2
    /\ setup_results[1].ok
    /\ setup_results[2].ok
    /\ setup_results[2].map # <<>>
    /\ setup_results[2].discovered # setup_results[1].discovered

\* C8: the mapping is assigned at most once and, once populated, never
\* changes; a command group is built only from a populated mapping and its
\* subcommand names are the mapping's names, also when subclasses were defined
\* after the population; a run selects only names of the mapping.
C8_WriteOnceRegistry ==
    [][/\ registry.populated => registry' = registry
       /\ populations' <= 1
       /\ registry'.populated = (populations' = 1)
       /\ register_group'.built =>
            /\ registry'.populated
            /\ SubcommandNames(register_group') = Keys(registry'.entries)
       /\ invocation'.ran =>
            invocation'.token \in Keys(registry'.entries) \cup {""}]_vars

C8_Witness ==
    /\ register_group.built
    /\ subclasses_at_build > Len(registry.entries)
    /\ Len(setup_results) >= 2

\* C9: with an empty registry the group is still built, with its two options
\* and its entry point and without subcommands, and a run of it (which can
\* select nothing) prints help and exits with status 2.
C9_EmptyRegistry ==
    (register_group.built /\ registry.populated /\ registry.entries = <<>>) =>
        /\ register_group.subcommands = <<>>
        /\ register_group.options = {"--input", "--output"}
        /\ register_group.starfish_command = "Registration._cli"
        /\ invocation.ran =>
            /\ invocation.token = ""
            /\ Selected = None
            /\ Outcome.calls = HelpAndExit
            /\ Outcome.exit_status = 2

C9_Witness ==
    /\ register_group.built
    /\ registry.populated
    /\ registry.entries = <<>>
    /\ invocation.ran
    /\ ~invocation.print_help
    /\ Outcome.exit_status = 2

\* C10: in every successful run the container written to the output path is
\* the container resulting from register applied to the loaded container,
\* whether register works in place or returns a transformed container.
C10_PersistedCarriesRunEffect ==
    (invocation.ran /\ Outcome.exit_status = 0) =>
        Outcome.artifact = Outcome.result

====
